---- MODULE Spec2Model ----
(***************************************************************************)
(* Model of the Dlink recursive-descent parser (Parser.cc, kept in the     *)
(* source tree as src/unnamed/part_000 lines 125-938) and of the AST nodes *)
(* it builds.                                                              *)
(*                                                                         *)
(* Every grammar rule `bool Parser::rule(Out& out, Token* start_token)` is *)
(* an operator rule(token_iter, errors) that returns the record            *)
(*   [ret, hang, token_iter, errors, out, start_token]                     *)
(* ret         : the C++ return value                                      *)
(* token_iter  : the cursor after the call (index into input, from 1)      *)
(* errors      : errors_ after the call (a sequence, insertion order)      *)
(* out         : what the rule stored in `out` (Null when it stored none)  *)
(* start_token : what the rule stored through `start_token`                *)
(* hang        : TRUE when the call never returns (see func_call_args)     *)
(***************************************************************************)
EXTENDS Integers, Sequences, FiniteSets, TLC

VARIABLES
    input,        \* Parser::input_ : the token sequence, ended by an eof token
    token_iter,   \* Parser::token_iter_ : index of the current token
    errors,       \* Parser::errors_ : sequence of Error(token, message)
    statements,   \* block(): the local vector `statements`
    block_start,  \* block(): the local Token `block_start`
    out,          \* parse(): the caller's `output`
    ret,          \* parse(): the returned bool (meaningful once pc = "done")
    pc,           \* "block": in block()'s while loop; "func_call": inside the
                  \* while (true) of func_call(); "done": parse() has returned;
                  \* "generated": code_gen() of an expression has returned
    code          \* the expression code_gen() was called on, the value it
                  \* returned and the instructions LLVM::builder has emitted

vars ==
    <<input, token_iter, errors, statements, block_start, out, ret, pc, code>>

----------------------------------------------------------------------------
(* Tokens *)

\* A default-constructed Token (`Token block_start;`).
NoToken == [type |-> "none", data |-> "", loc |-> 0]

\* A null ExpressionPtr / StatementPtr / TypePtr.
Null == [node |-> "null"]

current_token(p) == input[p]

previous_token(p) == input[p - 1]

\* assign_token: *dest = source when dest is given. Every caller of a rule
\* here reads start_token only when it passed a destination.
assign_token(dest, source) == source

\* accept with assign_token in front of the test: the capture slot is
\* written whether the token matches or not.
accept_capturing(token_type, p, slot) ==
    IF current_token(p).type = token_type
    THEN [ret |-> TRUE, token_iter |-> p + 1,
          start_token |-> assign_token(slot, previous_token(p + 1))]
    ELSE [ret |-> FALSE, token_iter |-> p,
          start_token |-> assign_token(slot, current_token(p))]

\* accept(token_type, start_token): on a match the cursor advances by one and
\* the consumed token is captured; otherwise nothing changes. `slot` is the
\* value the capture slot held before the call.
accept(token_type, p, slot) ==
    IF current_token(p).type = token_type
    THEN [ret |-> TRUE, token_iter |-> p + 1,
          start_token |-> assign_token(slot, previous_token(p + 1))]
    ELSE [ret |-> FALSE, token_iter |-> p, start_token |-> slot]

\* ErrorSet::add_error(Error(token, message)).
add_error(e, token, message) ==
    Append(e, [token |-> token, message |-> message])

\* std::stoi on the integer lexemes the model's inputs use.
stoi(data) ==
    CASE data = "1" -> 1
      [] data = "5" -> 5
      [] OTHER -> 0

----------------------------------------------------------------------------
(* AST nodes *)

Integer32(token, data) ==
    [node |-> "Integer32", token |-> token, data |-> data]

Identifier(token, id) ==
    [node |-> "Identifier", token |-> token, id |-> id]

BinaryOperation(token, op, lhs, rhs) ==
    [node |-> "BinaryOperation", token |-> token, op |-> op,
     lhs |-> lhs, rhs |-> rhs]

UnaryOperation(token, op, rhs) ==
    [node |-> "UnaryOperation", token |-> token, op |-> op, rhs |-> rhs]

FunctionCallOperation(token, func_expr, argument) ==
    [node |-> "FunctionCallOperation", token |-> token,
     func_expr |-> func_expr, argument |-> argument]

ExpressionStatement(token, expression) ==
    [node |-> "ExpressionStatement", token |-> token,
     expression |-> expression]

ReturnStatement(token, return_expr) ==
    [node |-> "ReturnStatement", token |-> token, return_expr |-> return_expr]

VariableDeclaration(token, type, id, expression) ==
    [node |-> "VariableDeclaration", token |-> token, type |-> type,
     identifier |-> id, expression |-> expression]

FunctionDeclaration(token, return_type, id, parameter, body) ==
    [node |-> "FunctionDeclaration", token |-> token,
     return_type |-> return_type, identifier |-> id,
     parameter |-> parameter, body |-> body]

Scope(token, stmts, parent) ==
    [node |-> "Scope", token |-> token, statements |-> stmts,
     parent |-> parent]

Block(token, stmts) ==
    [node |-> "Block", token |-> token, statements |-> stmts]

SimpleType(token, id, is_unsigned) ==
    [node |-> "SimpleType", token |-> token, identifier |-> id,
     is_unsigned |-> is_unsigned]

\* The two-argument constructor: is_unsigned is false for a signed type and
\* for one that needs no signedness.
SimpleType2(token, id) == SimpleType(token, id, FALSE)

StaticArray(token, type, length) ==
    [node |-> "StaticArray", token |-> token, type |-> type,
     length |-> length]

LValueReference(token, type) ==
    [node |-> "LValueReference", token |-> token, type |-> type]

----------------------------------------------------------------------------
(* Results of a rule *)

\* `return true` / `return false` with the cursor at p and errors_ = e.
Return(r, p, e, o, st) ==
    [ret |-> r, hang |-> FALSE, token_iter |-> p, errors |-> e,
     out |-> o, start_token |-> st]

Fail(p, e) == Return(FALSE, p, e, Null, NoToken)

\* The call does not return; the cursor and errors_ stay at p and e.
Hang(p, e) ==
    [ret |-> FALSE, hang |-> TRUE, token_iter |-> p, errors |-> e,
     out |-> Null, start_token |-> NoToken]

RECURSIVE expr(_, _)
RECURSIVE var_decl(_, _)
RECURSIVE scope(_, _)

----------------------------------------------------------------------------
(* Expressions *)
(* A rule's call of another rule is written once, and its result is bound  *)
(* to the parameter of a local operator that holds the code behind the     *)
(* call.                                                                   *)

number(p, e) ==
    LET a == accept("dec_integer", p, NoToken) IN
    IF a.ret
    THEN Return(TRUE, a.token_iter, e,
                Integer32(a.start_token, stoi(previous_token(a.token_iter).data)),
                a.start_token)
    ELSE Fail(p, e)

identifier(p, e) ==
    LET a == accept("identifier", p, NoToken) IN
    IF a.ret
    THEN Return(TRUE, a.token_iter, e,
                Identifier(a.start_token, previous_token(a.token_iter).data),
                a.start_token)
    ELSE Fail(p, e)

\* number(out, start_token) || identifier(out, start_token)
atom(p, e) ==
    LET n == number(p, e) IN
    IF n.ret THEN n ELSE identifier(n.token_iter, n.errors)

paren(p, e) ==
    LET a == accept("lparen", p, NoToken)
        after_expr(x) ==                     \* expr's return value is ignored
            LET b == accept("rparen", x.token_iter, NoToken) IN
            IF x.hang THEN x
            ELSE IF b.ret
            THEN Return(TRUE, b.token_iter, x.errors, x.out, a.start_token)
            ELSE Fail(x.token_iter,
                      add_error(x.errors, current_token(x.token_iter),
                                "Expected ')'"))
        after_atom(t) == IF t.ret THEN t ELSE Fail(t.token_iter, t.errors)
    IN  IF a.ret THEN after_expr(expr(a.token_iter, e))
        ELSE after_atom(atom(p, e))

\* The while (true) of func_call, entered with the cursor behind '(' or ','.
\* ret = TRUE stands for `break` (out is the new func_expr), ret = FALSE for
\* `return false`. An iteration in which expr fails and no ')' follows goes
\* round again; when it consumed nothing and added no error the next
\* iteration is the same one, and the loop never ends: hang.
RECURSIVE func_call_args(_, _, _, _, _)
func_call_args(p, e, arg, func_expr, func_call_start) ==
    LET next(cont, q, e2, arg2) ==           \* the next iteration, if any
            IF cont
            THEN func_call_args(q, e2, arg2, func_expr, func_call_start)
            ELSE Hang(p, e)
        after_expr(a_arg) ==
            LET q == a_arg.token_iter
                r == accept("rparen", q, NoToken)
                c == accept("comma", q, NoToken)
                arg2 == IF a_arg.ret THEN Append(arg, a_arg.out) ELSE arg
            IN  IF a_arg.hang THEN a_arg
                ELSE IF r.ret
                THEN Return(TRUE, r.token_iter, a_arg.errors,
                            FunctionCallOperation(func_call_start, func_expr,
                                                  arg2),
                            func_call_start)
                ELSE IF a_arg.ret /\ ~c.ret
                THEN Fail(q, add_error(a_arg.errors, current_token(q),
                                       "Expected ',' or ';'"))
                ELSE IF a_arg.ret            \* behind ',': continue
                THEN next(TRUE, c.token_iter, a_arg.errors, arg2)
                ELSE next(q # p \/ a_arg.errors # e, q, a_arg.errors, arg)
    IN  after_expr(expr(p, e))

\* func_call_while that leaves func_expr as it was when the argument list
\* is closed: the call built for the list is dropped.
RECURSIVE func_call_while_flat(_, _, _, _)
func_call_while_flat(p, e, func_expr, func_call_start) ==
    LET a == accept("lparen", p, NoToken)
        after_args(r) ==
            IF r.hang \/ ~r.ret THEN r
            ELSE func_call_while_flat(r.token_iter, r.errors, func_expr,
                                      func_call_start)
    IN  IF a.ret
        THEN after_args(func_call_args(a.token_iter, e, <<>>, func_expr,
                                       func_call_start))
        ELSE Return(TRUE, p, e, func_expr, func_call_start)

\* while (accept(TokenType::lparen)) { ... } and the return behind it.
RECURSIVE func_call_while(_, _, _, _)
func_call_while(p, e, func_expr, func_call_start) ==
    LET a == accept("lparen", p, NoToken)
        after_args(r) ==
            IF r.hang \/ ~r.ret THEN r
            ELSE func_call_while(r.token_iter, r.errors, r.out,
                                 func_call_start)
    IN  IF a.ret
        THEN after_args(func_call_args(a.token_iter, e, <<>>, func_expr,
                                       func_call_start))
        ELSE Return(TRUE, p, e, func_expr, func_call_start)

func_call(p, e) ==
    LET after_paren(f) ==
            IF f.hang THEN f
            ELSE IF ~f.ret THEN Fail(f.token_iter, f.errors)
            ELSE func_call_while(f.token_iter, f.errors, f.out, f.start_token)
    IN  after_paren(paren(p, e))

unary_plusminus(p, e) ==
    LET a1 == accept("plus", p, NoToken)
        a == IF a1.ret THEN a1 ELSE accept("minus", p, a1.start_token)
        after_func_call(rhs) ==
            IF rhs.hang THEN rhs
            ELSE IF a.ret
            THEN IF ~rhs.ret
                 THEN Fail(rhs.token_iter,
                           add_error(rhs.errors, current_token(rhs.token_iter),
                                     "Expected expression"))
                 ELSE Return(TRUE, rhs.token_iter, rhs.errors,
                             UnaryOperation(a.start_token,
                                 previous_token(a.token_iter).type, rhs.out),
                             a.start_token)
            ELSE IF rhs.ret THEN rhs
            ELSE Fail(rhs.token_iter, rhs.errors)
    IN  after_func_call(func_call(a.token_iter, e))

\* muldiv_operand with the loop condition of addsub added to its own: '+'
\* and '-' are consumed at the level of '*' and '/'.
RECURSIVE muldiv_operand_flat(_, _, _, _, _, _)
muldiv_operand_flat(p, e, first, lhs, op, muldiv_start) ==
    LET after_unary(rhs) ==
            LET start == IF first THEN rhs.start_token ELSE muldiv_start
                lhs2 == IF first THEN rhs.out
                        ELSE BinaryOperation(muldiv_start, op, lhs, rhs.out)
                a == rhs.token_iter + 1
            IN  IF rhs.hang THEN rhs
                ELSE IF ~rhs.ret
                THEN Fail(rhs.token_iter,
                          IF first THEN rhs.errors
                          ELSE add_error(rhs.errors,
                                         current_token(rhs.token_iter),
                                         "Expected expression"))
                ELSE IF current_token(rhs.token_iter).type
                            \in {"multiply", "divide", "plus", "minus"}
                THEN muldiv_operand_flat(a, rhs.errors, FALSE, lhs2,
                                         previous_token(a).type, start)
                ELSE Return(TRUE, rhs.token_iter, rhs.errors, lhs2, start)
    IN  after_unary(unary_plusminus(p, e))

\* muldiv: `unary_plusminus(lhs, &muldiv_start)` and the loop
\*     while (accept(multiply) || accept(divide)) { op; unary_plusminus(rhs); lhs = ... }
\* as one operator per operand: first = TRUE for the operand in front of
\* the loop (a failure returns false and adds no error), FALSE for an operand
\* behind an operator op (a failure adds an error).
RECURSIVE muldiv_operand(_, _, _, _, _, _)
muldiv_operand(p, e, first, lhs, op, muldiv_start) ==
    LET after_unary(rhs) ==
            LET start == IF first THEN rhs.start_token ELSE muldiv_start
                lhs2 == IF first THEN rhs.out
                        ELSE BinaryOperation(muldiv_start, op, lhs, rhs.out)
                a1 == accept("multiply", rhs.token_iter, NoToken)
                a == IF a1.ret THEN a1
                     ELSE accept("divide", rhs.token_iter, NoToken)
            IN  IF rhs.hang THEN rhs
                ELSE IF ~rhs.ret
                THEN Fail(rhs.token_iter,
                          IF first THEN rhs.errors
                          ELSE add_error(rhs.errors,
                                         current_token(rhs.token_iter),
                                         "Expected expression"))
                ELSE IF a.ret
                THEN muldiv_operand(a.token_iter, rhs.errors, FALSE, lhs2,
                                    previous_token(a.token_iter).type, start)
                ELSE Return(TRUE, rhs.token_iter, rhs.errors, lhs2, start)
    IN  after_unary(unary_plusminus(p, e))

muldiv(p, e) == muldiv_operand(p, e, TRUE, Null, "none", NoToken)

\* addsub_operand with the operands of the new node the other way round:
\* make_shared<BinaryOperation>(addsub_start, op, rhs, lhs).
RECURSIVE addsub_operand_swapped(_, _, _, _, _, _)
addsub_operand_swapped(p, e, first, lhs, op, addsub_start) ==
    LET after_muldiv(rhs) ==
            LET start == IF first THEN rhs.start_token ELSE addsub_start
                lhs2 == IF first THEN rhs.out
                        ELSE BinaryOperation(addsub_start, op, rhs.out, lhs)
                a1 == accept("plus", rhs.token_iter, NoToken)
                a == IF a1.ret THEN a1
                     ELSE accept("minus", rhs.token_iter, NoToken)
            IN  IF rhs.hang THEN rhs
                ELSE IF ~rhs.ret
                THEN Fail(rhs.token_iter,
                          IF first THEN rhs.errors
                          ELSE add_error(rhs.errors,
                                         current_token(rhs.token_iter),
                                         "Expected expression"))
                ELSE IF a.ret
                THEN addsub_operand_swapped(a.token_iter, rhs.errors, FALSE,
                         lhs2, previous_token(a.token_iter).type, start)
                ELSE Return(TRUE, rhs.token_iter, rhs.errors, lhs2, start)
    IN  after_muldiv(muldiv(p, e))

\* addsub: `muldiv(lhs, &addsub_start)` and the loop
\*     while (accept(plus) || accept(minus)) { op; muldiv(rhs); lhs = ... }
\* as one operator per operand, as in muldiv_operand.
RECURSIVE addsub_operand(_, _, _, _, _, _)
addsub_operand(p, e, first, lhs, op, addsub_start) ==
    LET after_muldiv(rhs) ==
            LET start == IF first THEN rhs.start_token ELSE addsub_start
                lhs2 == IF first THEN rhs.out
                        ELSE BinaryOperation(addsub_start, op, lhs, rhs.out)
                a1 == accept("plus", rhs.token_iter, NoToken)
                a == IF a1.ret THEN a1
                     ELSE accept("minus", rhs.token_iter, NoToken)
            IN  IF rhs.hang THEN rhs
                ELSE IF ~rhs.ret
                THEN Fail(rhs.token_iter,
                          IF first THEN rhs.errors
                          ELSE add_error(rhs.errors,
                                         current_token(rhs.token_iter),
                                         "Expected expression"))
                ELSE IF a.ret
                THEN addsub_operand(a.token_iter, rhs.errors, FALSE, lhs2,
                                    previous_token(a.token_iter).type, start)
                ELSE Return(TRUE, rhs.token_iter, rhs.errors, lhs2, start)
    IN  after_muldiv(muldiv(p, e))

addsub(p, e) == addsub_operand(p, e, TRUE, Null, "none", NoToken)

\* The operands left in the order they were pushed.
reverse_skipped(s) == s

\* std::reverse(operands.begin(), operands.end())
reverse(s) == [i \in 1..Len(s) |-> s[Len(s) + 1 - i]]

\* for (ExpressionPtr operand : operands)
\*     result = make_shared<BinaryOperation>(assign_start, assign, operand, result);
RECURSIVE assign_fold(_, _, _)
assign_fold(operands, result, assign_start) ==
    IF operands = <<>> THEN result
    ELSE assign_fold(Tail(operands),
                     BinaryOperation(assign_start, "assign", Head(operands), result),
                     assign_start)

\* assign: `addsub(lhs, &assign_start)`, operands.push_back(lhs), the loop
\*     while (accept(assign)) { addsub(rhs); operands.push_back(rhs); }
\* as one operator per operand (as in muldiv_operand), and the fold behind
\* the loop. `operands` holds the operands in front of this one.
RECURSIVE assign_operand(_, _, _, _)
assign_operand(p, e, operands, assign_start) ==
    LET first == operands = <<>>
        after_addsub(rhs) ==
            LET start == IF first THEN rhs.start_token ELSE assign_start
                a == accept("assign", rhs.token_iter, NoToken)
                rest == reverse(operands)    \* back() popped, then reversed
            IN  IF rhs.hang THEN rhs
                ELSE IF ~rhs.ret
                THEN Fail(rhs.token_iter,
                          IF first THEN rhs.errors
                          ELSE add_error(rhs.errors,
                                         current_token(rhs.token_iter),
                                         "Expected expression"))
                ELSE IF a.ret
                THEN assign_operand(a.token_iter, rhs.errors,
                                    Append(operands, rhs.out), start)
                ELSE Return(TRUE, rhs.token_iter, rhs.errors,
                            assign_fold(rest, rhs.out, start), start)
    IN  after_addsub(addsub(p, e))

assign(p, e) == assign_operand(p, e, <<>>, NoToken)

expr(p, e) == assign(p, e)

----------------------------------------------------------------------------
(* Types *)

simple_type(p, e) ==
    LET u == accept("_unsigned", p, NoToken)
        s == accept("_signed", p, u.start_token)
        i == accept("_int", p, s.start_token)
        v == accept("_void", p, i.start_token)
    IN
    IF u.ret
    THEN LET q == u.token_iter IN
         IF accept("_char", q, NoToken).ret
         THEN Fail(q + 1, e)                         \* unsigned char
         ELSE IF accept("_short", q, NoToken).ret
         THEN Fail(q + 1, e)                         \* unsigned short
         ELSE IF accept("_int", q, NoToken).ret
         THEN Return(TRUE, q + 1, e,
                     SimpleType(u.start_token, "int", TRUE), u.start_token)
         ELSE IF accept("_long", q, NoToken).ret
         THEN Fail(q + 1, e)                         \* unsigned long
         ELSE Return(TRUE, q, e,
                     SimpleType(u.start_token, "int", TRUE), u.start_token)
    ELSE IF s.ret
    THEN LET q == s.token_iter IN
         IF accept("_char", q, NoToken).ret
         THEN Fail(q + 1, e)                         \* signed char
         ELSE IF accept("_short", q, NoToken).ret
         THEN Fail(q + 1, e)                         \* signed short
         ELSE IF accept("_int", q, NoToken).ret
         THEN Return(TRUE, q + 1, e,
                     SimpleType2(s.start_token, "int"), s.start_token)
         ELSE IF accept("_long", q, NoToken).ret
         THEN Fail(q + 1, e)                         \* signed long
         ELSE Return(TRUE, q, e,
                     SimpleType2(s.start_token, "int"), s.start_token)
    ELSE IF accept("_char", p, NoToken).ret
    THEN Fail(p + 1, e)                              \* char
    ELSE IF accept("_short", p, NoToken).ret
    THEN Fail(p + 1, e)                              \* short
    ELSE IF i.ret
    THEN Return(TRUE, i.token_iter, e,
                SimpleType2(i.start_token, "int"), i.start_token)
    ELSE IF accept("_long", p, NoToken).ret
    THEN Fail(p + 1, e)                              \* long
    ELSE IF v.ret
    THEN Return(TRUE, v.token_iter, e,
                SimpleType2(v.start_token, "void"), v.start_token)
    ELSE Fail(p, e)

\* reference_type that consumes '&' and hands on the simple type as it is.
reference_type_unwrapped(p, e) ==
    LET after_simple_type(t) ==
            LET a == accept("bit_and", t.token_iter, NoToken) IN
            IF t.ret
            THEN Return(TRUE, a.token_iter, t.errors, t.out, t.start_token)
            ELSE Fail(t.token_iter, t.errors)
    IN  after_simple_type(simple_type(p, e))

reference_type(p, e) ==
    LET after_simple_type(t) ==
            LET a == accept("bit_and", t.token_iter, NoToken) IN
            IF t.ret
            THEN IF a.ret
                 THEN Return(TRUE, a.token_iter, t.errors,
                             LValueReference(t.start_token, t.out),
                             t.start_token)
                 ELSE Return(TRUE, t.token_iter, t.errors, t.out,
                             t.start_token)
            ELSE Fail(t.token_iter, t.errors)
    IN  after_simple_type(simple_type(p, e))

\* The `loop:` label of array_type, entered with the cursor behind '['.
\* When ']' is missing behind the length, control leaves the if without a
\* return and reaches the final `return false` with no error added.
RECURSIVE array_type_loop(_, _, _, _)
array_type_loop(p, e, lhs_array_type, array_start_token) ==
    LET after_expr(length) ==
            LET r == accept("rbparen", length.token_iter, NoToken)
                new_type == StaticArray(array_start_token, lhs_array_type,
                                        length.out)
                l == accept("lbparen", r.token_iter, NoToken)
            IN  IF length.hang THEN length
                ELSE IF length.ret
                THEN IF r.ret
                     THEN IF l.ret
                          THEN array_type_loop(l.token_iter, length.errors,
                                               new_type, array_start_token)
                          ELSE Return(TRUE, r.token_iter, length.errors,
                                      new_type, array_start_token)
                     ELSE Fail(length.token_iter, length.errors)
                ELSE Fail(length.token_iter,
                          add_error(length.errors,
                                    current_token(length.token_iter), "TODO"))
    IN  after_expr(expr(p, e))

array_type(p, e) ==
    LET after_reference_type(t) ==
            LET l == accept("lbparen", t.token_iter, NoToken) IN
            IF t.ret
            THEN IF l.ret
                 THEN array_type_loop(l.token_iter, t.errors, t.out,
                                      t.start_token)
                 ELSE Return(TRUE, t.token_iter, t.errors, t.out,
                             t.start_token)
            ELSE Fail(t.token_iter, t.errors)
    IN  after_reference_type(reference_type(p, e))

type(p, e) == array_type(p, e)

----------------------------------------------------------------------------
(* Statements *)

expr_stmt(p, e) ==
    LET after_expr(x) ==
            LET a == accept("semicolon", x.token_iter, NoToken) IN
            IF x.hang THEN x
            ELSE IF ~x.ret THEN Fail(x.token_iter, x.errors)
            ELSE IF a.ret
            THEN Return(TRUE, a.token_iter, x.errors,
                        ExpressionStatement(x.start_token, x.out),
                        x.start_token)
            ELSE Fail(x.token_iter,
                      add_error(x.errors, current_token(x.token_iter),
                                "Expected ';'"))
    IN  after_expr(expr(p, e))

return_stmt(p, e) ==
    LET r == accept("_return", p, NoToken)
        after_expr(x) ==                     \* expr's return value is ignored
            LET a == accept("semicolon", x.token_iter, NoToken) IN
            IF x.hang THEN x
            ELSE IF a.ret
            THEN Return(TRUE, a.token_iter, x.errors,
                        ReturnStatement(r.start_token, x.out), r.start_token)
            ELSE Fail(x.token_iter,
                      add_error(x.errors, current_token(x.token_iter),
                                "Expected ';'"))
        after_expr_stmt(s) ==
            IF s.hang \/ s.ret THEN s ELSE Fail(s.token_iter, s.errors)
    IN  IF r.ret THEN after_expr(expr(r.token_iter, e))
        ELSE after_expr_stmt(expr_stmt(p, e))

\* The while (true) of func_decl, entered with the cursor behind '(' or ','
\* or behind a parameter that no ',' followed. ret = TRUE stands for `break`
\* (out is param_list), ret = FALSE for `return false`.
RECURSIVE func_decl_params(_, _, _, _)
func_decl_params(p, e, param_list, var_decl_start_token) ==
    LET after_type(param_type) ==
            LET q == param_type.token_iter
                r == accept("rparen", q, NoToken)
                i == accept("identifier", q, NoToken)
                c == accept("comma", i.token_iter, NoToken)
                named == VariableDeclaration(var_decl_start_token,
                             param_type.out,
                             previous_token(i.token_iter).data, Null)
                unnamed == VariableDeclaration(var_decl_start_token,
                               param_type.out, "", Null)
            IN
            IF param_type.hang THEN param_type
            ELSE IF param_type.ret
            THEN IF param_type.out.token.type = "_void"
                 THEN IF r.ret
                      THEN Return(TRUE, r.token_iter, param_type.errors,
                                  param_list, NoToken)
                      ELSE Fail(q, add_error(param_type.errors,
                                    current_token(q),
                                    "Unexpected additional parameter in void paramter function"))
                 ELSE func_decl_params(c.token_iter, param_type.errors,
                          IF i.ret THEN Append(param_list, named)
                          ELSE IF c.ret THEN Append(param_list, unnamed)
                          ELSE param_list,
                          var_decl_start_token)
            ELSE IF r.ret
            THEN Return(TRUE, r.token_iter, param_type.errors, param_list,
                        NoToken)
            ELSE Fail(q, add_error(param_type.errors, current_token(q),
                                   "Unexpected"))
    IN  after_type(type(p, e))

func_decl(p, e, var_decl_start_token, return_type, id) ==
    LET after_scope(param_list, body) ==
            IF body.hang THEN body
            ELSE IF ~body.ret
            THEN Fail(body.token_iter,
                      add_error(body.errors, current_token(body.token_iter),
                                "Unexpected"))
            ELSE Return(TRUE, body.token_iter, body.errors,
                        FunctionDeclaration(var_decl_start_token, return_type,
                                            id, param_list, body.out),
                        var_decl_start_token)
        after_params(params) ==
            IF params.hang \/ ~params.ret THEN params
            ELSE after_scope(params.out,
                             scope(params.token_iter, params.errors))
    IN  after_params(func_decl_params(p, e, <<>>, var_decl_start_token))

\* var_decl_init without the else branch of `if (expr(expression))`: a
\* missing expression returns false and adds no error.
var_decl_init_silent(p, e, type_expr, name) ==
    LET after_expr(expression) ==
            LET t == accept("semicolon", expression.token_iter, NoToken) IN
            IF expression.hang THEN expression
            ELSE IF expression.ret
            THEN IF t.ret
                 THEN Return(TRUE, t.token_iter, expression.errors,
                             VariableDeclaration(type_expr.start_token,
                                 type_expr.out, name, expression.out),
                             type_expr.start_token)
                 ELSE Fail(expression.token_iter,
                           add_error(expression.errors,
                               current_token(expression.token_iter),
                               "Expected ';'"))
            ELSE Fail(expression.token_iter, expression.errors)
    IN  after_expr(expr(p, e))

\* var_decl behind `type identifier =`: the branch `if (accept(assign))`,
\* entered with the cursor behind '='.
var_decl_init(p, e, type_expr, name) ==
    LET after_expr(expression) ==
            LET t == accept("semicolon", expression.token_iter, NoToken) IN
            IF expression.hang THEN expression
            ELSE IF expression.ret
            THEN IF t.ret
                 THEN Return(TRUE, t.token_iter, expression.errors,
                             VariableDeclaration(type_expr.start_token,
                                 type_expr.out, name, expression.out),
                             type_expr.start_token)
                 ELSE Fail(expression.token_iter,
                           add_error(expression.errors,
                               current_token(expression.token_iter),
                               "Expected ';'"))
            ELSE Fail(expression.token_iter,
                      add_error(expression.errors,
                          current_token(expression.token_iter),
                          "Expected expression"))
    IN  after_expr(expr(p, e))

var_decl(p, e) ==
    LET after_return_stmt(r) ==
            IF r.hang \/ r.ret THEN r ELSE Fail(r.token_iter, r.errors)
        after_type(type_expr) ==
            LET i == accept("identifier", type_expr.token_iter, NoToken)
                name == previous_token(i.token_iter).data
                a == accept("assign", i.token_iter, NoToken)
                s == accept("semicolon", i.token_iter, NoToken)
                l == accept("lparen", i.token_iter, NoToken)
            IN
            IF type_expr.hang THEN type_expr
            ELSE IF type_expr.ret
            THEN IF i.ret /\ a.ret
                 THEN var_decl_init(a.token_iter, type_expr.errors,
                                    type_expr, name)
                 ELSE IF i.ret /\ s.ret
                 THEN Return(TRUE, s.token_iter, type_expr.errors,
                             VariableDeclaration(type_expr.start_token,
                                 type_expr.out, name, Null),
                             type_expr.start_token)
                 ELSE IF i.ret /\ l.ret
                 THEN func_decl(l.token_iter, type_expr.errors,
                                type_expr.start_token, type_expr.out, name)
                 ELSE Fail(i.token_iter,
                           add_error(type_expr.errors,
                                     current_token(i.token_iter),
                                     "Expected identifier"))
            ELSE after_return_stmt(return_stmt(type_expr.token_iter,
                                               type_expr.errors))
    IN  after_type(type(p, e))

\* while (var_decl(statement)) { statements.push_back(statement); ... } of
\* scope. ret is FALSE once var_decl has failed; out is `statements`.
RECURSIVE scope_while(_, _, _)
scope_while(p, e, stmts) ==
    LET after_var_decl(v) ==
            IF v.hang THEN v
            ELSE IF v.ret
            THEN scope_while(v.token_iter, v.errors, Append(stmts, v.out))
            ELSE Return(FALSE, v.token_iter, v.errors, stmts, NoToken)
    IN  after_var_decl(var_decl(p, e))

scope(p, e) ==
    LET b == accept("lbrace", p, NoToken)
        after_while(w) ==
            LET r == accept("rbrace", w.token_iter, NoToken) IN
            IF w.hang THEN w
            ELSE IF r.ret
            THEN Return(TRUE, r.token_iter, w.errors,
                        Scope(b.start_token, w.out, Null), b.start_token)
            ELSE Fail(w.token_iter,
                      add_error(w.errors, current_token(w.token_iter),
                                "Expected '}'"))
        after_var_decl(v) ==
            IF v.hang \/ v.ret THEN v ELSE Fail(v.token_iter, v.errors)
    IN  IF b.ret THEN after_while(scope_while(b.token_iter, e, <<>>))
        ELSE after_var_decl(var_decl(p, e))

----------------------------------------------------------------------------
(* Inputs: token sequences the lexer can hand to Parser::Parser *)

MaxLen == 2        \* free-form inputs: tokens before eof
MaxOps == 3        \* operator chains: operators in the chain
MaxExpr == 4       \* expression statements: tokens in front of ';'
MaxDims == 2       \* declarations: bracketed lengths behind the type
MaxTail == 3       \* declarations: tokens behind `int a`
MaxParams == 3     \* function declarations: tokens between '(' and ')'
MaxCalls == 2      \* call chains: argument lists behind the callee
MaxArgs == 2       \* call chains: arguments in one list

Tk(tt, lexeme) == [type |-> tt, data |-> lexeme]

T_lbrace == Tk("lbrace", "{")
T_rbrace == Tk("rbrace", "}")
T_lparen == Tk("lparen", "(")
T_rparen == Tk("rparen", ")")
T_lbparen == Tk("lbparen", "[")
T_rbparen == Tk("rbparen", "]")
T_assign == Tk("assign", "=")
T_plus == Tk("plus", "+")
T_minus == Tk("minus", "-")
T_multiply == Tk("multiply", "*")
T_divide == Tk("divide", "/")
T_semicolon == Tk("semicolon", ";")
T_comma == Tk("comma", ",")
T_bit_and == Tk("bit_and", "&")
T_unsigned == Tk("_unsigned", "unsigned")
T_signed == Tk("_signed", "signed")
T_char == Tk("_char", "char")
T_short == Tk("_short", "short")
T_int == Tk("_int", "int")
T_long == Tk("_long", "long")
T_void == Tk("_void", "void")
T_return == Tk("_return", "return")
T_a == Tk("identifier", "a")
T_f == Tk("identifier", "f")
T_1 == Tk("dec_integer", "1")
T_5 == Tk("dec_integer", "5")

TypeWords == {T_unsigned, T_signed, T_char, T_short, T_int, T_long, T_void}

AllTokens ==
    {T_lbrace, T_rbrace, T_lparen, T_rparen, T_lbparen, T_rbparen, T_assign,
     T_plus, T_minus, T_multiply, T_divide, T_semicolon, T_comma, T_bit_and,
     T_return, T_a, T_1} \cup TypeWords

SeqsUpTo(S, n) == UNION {[1..k -> S] : k \in 0..n}

\* operand (operator operand)^k
RECURSIVE Chains(_)
Chains(k) ==
    IF k = 0 THEN {<<x>> : x \in {T_a, T_5}}
    ELSE {c \o <<o, x>> : c \in Chains(k - 1),
                          o \in {T_assign, T_plus, T_minus, T_multiply, T_divide},
                          x \in {T_a, T_5}}

\* k bracketed lengths, some of them malformed
RECURSIVE Dims(_)
Dims(k) ==
    IF k = 0 THEN {<<>>}
    ELSE {d \o b : d \in Dims(k - 1),
                   b \in {<<T_lbparen, T_5, T_rbparen>>,
                          <<T_lbparen, T_a, T_rbparen>>,
                          <<T_lbparen, T_5>>,
                          <<T_lbparen, T_rbparen>>}}

\* any tokens at all
FreeInputs == SeqsUpTo(AllTokens, MaxLen)

\* return <any tokens> ;
ReturnInputs ==
    {<<T_return>> \o t \o <<T_semicolon>> : t \in SeqsUpTo(AllTokens, MaxLen)}

\* operand (operator operand)* ;
ChainInputs ==
    {c \o <<T_semicolon>> : c \in UNION {Chains(k) : k \in 0..MaxOps}}

\* <operands, signs, '=', parentheses, commas> ;
ExprInputs ==
    {t \o <<T_semicolon>> :
        t \in SeqsUpTo({T_a, T_5, T_plus, T_assign, T_lparen, T_rparen,
                        T_comma}, MaxExpr)}

\* <type words> [&] <bracketed lengths> a ;   and the same with  a = ;
TypeInputs ==
    {t \o r \o d \o tail :
        t \in SeqsUpTo(TypeWords, 2),
        r \in {<<>>, <<T_bit_and>>},
        d \in UNION {Dims(k) : k \in 0..MaxDims},
        tail \in {<<T_a, T_semicolon>>, <<T_a, T_assign, T_semicolon>>}}

\* int a <tokens>,   int a = <any token>   and   int [ ( <length> ) ] a = ;
DeclInputs ==
    {<<T_int, T_a>> \o t :
        t \in SeqsUpTo({T_assign, T_semicolon, T_lparen, T_rparen, T_5, T_a,
                        T_plus, T_comma, T_lbrace, T_rbrace, T_int, T_void},
                       MaxTail)}
    \cup {<<T_int, T_a, T_assign, x>> : x \in AllTokens}
    \cup {<<T_int, T_lbparen, T_lparen>> \o x
              \o <<T_rparen, T_rbparen, T_a, T_assign, T_semicolon>> :
           x \in {<<>>, <<T_plus>>, <<T_5>>}}

\* int f ( <parameter tokens> [)] <body>
FuncInputs ==
    {<<T_int, T_f, T_lparen>> \o ps \o close \o body :
        ps \in SeqsUpTo({T_int, T_void, T_a, T_comma, T_bit_and}, MaxParams),
        close \in {<<T_rparen>>, <<>>},
        body \in {<<T_lbrace, T_rbrace>>,
                  <<T_lbrace, T_int, T_a, T_semicolon, T_rbrace>>,
                  <<T_return, T_a, T_semicolon>>,
                  <<T_semicolon>>}}

\* ( atom , ... , atom )  with n atoms
RECURSIVE ArgLists(_)
ArgLists(n) ==
    IF n = 0 THEN {<<T_lparen, T_rparen>>}
    ELSE IF n = 1 THEN {<<T_lparen, x, T_rparen>> : x \in {T_a, T_5}}
    ELSE {<<T_lparen, x, T_comma>> \o Tail(l) :
              x \in {T_a, T_5}, l \in ArgLists(n - 1)}

\* k argument lists, one behind the other
RECURSIVE CallTails(_)
CallTails(k) ==
    IF k = 0 THEN {<<>>}
    ELSE {c \o l : c \in CallTails(k - 1),
                   l \in UNION {ArgLists(n) : n \in 0..MaxArgs}}

\* f <argument lists> ;
CallInputs ==
    {<<T_f>> \o c \o <<T_semicolon>> :
        c \in UNION {CallTails(k) : k \in 0..MaxCalls}}

\* The lexer's output for a source text: each token with its location, and
\* the end-of-input token behind the last one.
Lex(ts) ==
    [i \in 1..(Len(ts) + 1) |->
        IF i <= Len(ts)
        THEN [type |-> ts[i].type, data |-> ts[i].data, loc |-> i]
        ELSE [type |-> "eof", data |-> "", loc |-> i]]

Inputs ==
    {Lex(ts) : ts \in FreeInputs \cup ReturnInputs \cup ChainInputs
                      \cup ExprInputs \cup TypeInputs \cup DeclInputs
                      \cup FuncInputs \cup CallInputs}

----------------------------------------------------------------------------
(* Code generation of expressions (Operation.cc) *)

\* LLVM::builder.getInt32(data), LLVM::builder.getFalse(), and the value of
\* the n-th instruction the builder has emitted.
getInt32(data) == [kind |-> "i32", n |-> data]

getFalse == [kind |-> "i1", n |-> 0]

Inst(n) == [kind |-> "inst", n |-> n]

\* What a code_gen call hands back: the returned value, the instructions
\* emitted so far, and whether it left by `throw` instead of `return`.
Value(v, ins) == [value |-> v, ins |-> ins, thrown |-> FALSE]

\* LLVM::builder.CreateAdd / CreateSub / CreateMul / CreateSDiv: the
\* instruction is emitted behind those emitted before, its value returned.
Create(opcode, lhs_value, rhs_value, ins) ==
    Value(Inst(Len(ins) + 1),
          Append(ins, [opcode |-> opcode, lhs |-> lhs_value,
                       rhs |-> rhs_value]))

\* Before any code_gen call.
NoCode ==
    [node |-> Null, value |-> [kind |-> "none", n |-> 0], ins |-> <<>>,
     thrown |-> FALSE]

\* BinaryOperation::code_gen behind its two operand calls.
BinaryOperation_code_gen(op, lhs_value, rhs_value, ins) ==
    CASE op = "plus" -> Create("add", lhs_value, rhs_value, ins)
      [] op = "minus" -> Create("sub", lhs_value, rhs_value, ins)
      [] op = "multiply" -> Create("mul", lhs_value, rhs_value, ins)
      [] op = "divide" -> Create("sdiv", lhs_value, rhs_value, ins)
      [] OTHER -> Value(getFalse, ins)

\* UnaryOperation::code_gen behind its operand call.
UnaryOperation_code_gen(op, rhs_value, ins) ==
    CASE op = "plus" -> Create("mul", getInt32(1), rhs_value, ins)
      [] op = "minus" -> Create("mul", getInt32(-1), rhs_value, ins)
      [] OTHER -> Value(getFalse, ins)

\* n->code_gen() with the instructions ins emitted before the call.
RECURSIVE code_gen(_, _)
code_gen(n, ins) ==
    LET after_lhs(l) ==
            LET after_rhs(r) ==
                    BinaryOperation_code_gen(n.op, l.value, r.value, r.ins)
            IN  after_rhs(code_gen(n.rhs, l.ins))
        after_operand(r) == UnaryOperation_code_gen(n.op, r.value, r.ins)
    IN  IF n.node = "BinaryOperation" THEN after_lhs(code_gen(n.lhs, ins))
        ELSE IF n.node = "UnaryOperation"
        THEN after_operand(code_gen(n.rhs, ins))
        ELSE Value(getInt32(n.data), ins)            \* Integer32

\* The nodes below n are BinaryOperation, UnaryOperation and Integer32.
RECURSIVE IsArithmetic(_)
IsArithmetic(n) ==
    CASE n.node = "BinaryOperation" ->
             IsArithmetic(n.lhs) /\ IsArithmetic(n.rhs)
      [] n.node = "UnaryOperation" -> IsArithmetic(n.rhs)
      [] OTHER -> n.node = "Integer32"

----------------------------------------------------------------------------
(* The parse session *)

\* Parser::Parser(input): the cursor stands on the first token.
Init ==
    /\ input \in Inputs
    /\ token_iter = 1
    /\ errors = <<>>
    /\ statements = <<>>
    /\ block_start = NoToken
    /\ out = Null
    /\ ret = FALSE
    /\ pc = "block"
    /\ code = NoCode

\* block(): an iteration of while (scope(statement, &block_start)) in which
\* scope succeeded.
BlockLoop ==
    /\ pc = "block"
    /\ LET after_scope(s) ==
               /\ ~s.hang
               /\ s.ret
               /\ token_iter' = s.token_iter
               /\ errors' = s.errors
               /\ statements' = Append(statements, s.out)
               /\ block_start' = s.start_token
       IN  after_scope(scope(token_iter, errors))
    /\ UNCHANGED <<input, out, ret, pc, code>>

\* BlockReturn with the test of errors_ left out: block() builds the Block
\* and returns true whatever errors_ holds.
BlockReturn_unchecked ==
    /\ pc = "block"
    /\ LET after_scope(s) ==
               /\ ~s.hang
               /\ ~s.ret
               /\ token_iter' = s.token_iter
               /\ errors' = s.errors
               /\ out' = Block(block_start, statements)
               /\ ret' = TRUE
       IN  after_scope(scope(token_iter, errors))
    /\ pc' = "done"
    /\ UNCHANGED <<input, statements, block_start, code>>

\* block(): scope failed, the loop ends and block() (and with it parse())
\* returns.
BlockReturn ==
    /\ pc = "block"
    /\ LET after_scope(s) ==
               /\ ~s.hang
               /\ ~s.ret
               /\ token_iter' = s.token_iter
               /\ errors' = s.errors
               /\ IF s.errors = <<>>
                  THEN out' = Block(block_start, statements) /\ ret' = TRUE
                  ELSE out' = out /\ ret' = FALSE
       IN  after_scope(scope(token_iter, errors))
    /\ pc' = "done"
    /\ UNCHANGED <<input, statements, block_start, code>>

\* block(): the call of scope has entered an iteration of func_call's
\* while (true) that goes round without end.
BlockHang ==
    /\ pc = "block"
    /\ LET after_scope(s) ==
               /\ s.hang
               /\ token_iter' = s.token_iter
               /\ errors' = s.errors
       IN  after_scope(scope(token_iter, errors))
    /\ pc' = "func_call"
    /\ UNCHANGED <<input, statements, block_start, out, ret, code>>

\* func_call(): one more iteration of while (true): expr fails, no ')'
\* follows, and control is back at the top of the loop.
FuncCallArgs ==
    /\ pc = "func_call"
    /\ LET after_expr(a_arg) ==
               /\ ~a_arg.hang
               /\ ~a_arg.ret
               /\ ~accept("rparen", a_arg.token_iter, NoToken).ret
               /\ token_iter' = a_arg.token_iter
               /\ errors' = a_arg.errors
       IN  after_expr(expr(token_iter, errors))
    /\ UNCHANGED <<input, statements, block_start, out, ret, pc, code>>

\* code_gen() of the expression of one of the parsed expression statements,
\* for the expressions whose code_gen is BinaryOperation's, UnaryOperation's
\* or Integer32's.
CodeGen ==
    /\ pc = "done"
    /\ ret
    /\ \E i \in 1..Len(statements) :
           /\ statements[i].node = "ExpressionStatement"
           /\ IsArithmetic(statements[i].expression)
           /\ LET after_code_gen(g) ==
                      code' = [node |-> statements[i].expression,
                               value |-> g.value, ins |-> g.ins,
                               thrown |-> g.thrown]
              IN  after_code_gen(code_gen(statements[i].expression, <<>>))
    /\ pc' = "generated"
    /\ UNCHANGED <<input, token_iter, errors, statements, block_start, out,
                   ret>>

Next == BlockLoop \/ BlockReturn \/ BlockHang \/ FuncCallArgs \/ CodeGen

Spec == Init /\ [][Next]_vars

----------------------------------------------------------------------------
(* Properties *)

\* parse() has returned.
Done == pc = "done"

\* The first scope call of block() is over.
Started == ~(pc = "block" /\ token_iter = 1)

\* C1: parse returns true exactly when errors_ is empty at the point where
\* block() finishes; with an error recorded anywhere in the session it
\* returns false and stores no Block, with none it returns true and the
\* output is a Block.
C1_SuccessIffNoErrors ==
    Done => /\ ret = (errors = <<>>)
            /\ ret => out.node = "Block"
            /\ ~ret => out = Null

\* C1 witness: a parse whose statement succeeded locally, recorded an error
\* on the way, and was reported as failed.
C1_Witness ==
    /\ Done
    /\ statements # <<>>
    /\ errors # <<>>
    /\ ~ret
    /\ out = Null

\* C2: when parse returns true the cursor stands on the end-of-input token,
\* so every token in front of it has been consumed.
C2_SuccessConsumesAll ==
    (Done /\ ret) => current_token(token_iter).type = "eof"

\* C3: every parse run comes to an end: the parser is never inside a loop
\* iteration that leaves the cursor and errors_ as they were and goes round
\* again (pc = "func_call" is that state; FuncCallArgs repeats it for ever).
C3_NoEndlessLoop == pc # "func_call"

----------------------------------------------------------------------------
(* Reading the input, for the properties *)

AddOps == {"plus", "minus"}
MulOps == {"multiply", "divide"}

\* Token types an expression can begin with.
ExprStart == {"dec_integer", "identifier", "lparen", "plus", "minus"}

IsAtom(i) == input[i].type \in {"dec_integer", "identifier"}

\* The node an atom at position i is parsed to.
Leaf(i) ==
    IF input[i].type = "dec_integer"
    THEN Integer32(input[i], stoi(input[i].data))
    ELSE Identifier(input[i], input[i].data)

\* The number of operands of an input  operand (operator operand)* ;
Operands == (Len(input) - 1) \div 2

\* The input is  operand (operator operand)* ;  with atoms as operands and
\* every operator's type in ops.
IsChain(ops) ==
    /\ Len(input) >= 3
    /\ Len(input) % 2 = 1
    /\ input[Len(input) - 1].type = "semicolon"
    /\ \A i \in 1..Operands : IsAtom(2 * i - 1)
    /\ \A i \in 1..(Operands - 1) : input[2 * i].type \in ops

NoParenthesis == \A i \in 1..Len(input) : input[i].type # "lparen"

IsSum(n) == n.node = "BinaryOperation" /\ n.op \in AddOps

\* No '*' or '/' node below n has a '+' or '-' node as an operand.
RECURSIVE NoLooseSum(_)
NoLooseSum(n) ==
    CASE n.node = "BinaryOperation" ->
             /\ n.op \in MulOps => ~IsSum(n.lhs) /\ ~IsSum(n.rhs)
             /\ NoLooseSum(n.lhs)
             /\ NoLooseSum(n.rhs)
      [] n.node = "UnaryOperation" -> NoLooseSum(n.rhs)
      [] n.node = "ExpressionStatement" -> NoLooseSum(n.expression)
      [] n.node = "ReturnStatement" -> NoLooseSum(n.return_expr)
      [] n.node = "VariableDeclaration" -> NoLooseSum(n.expression)
      [] n.node = "Scope" ->
             \A i \in 1..Len(n.statements) : NoLooseSum(n.statements[i])
      [] OTHER -> TRUE

\* e_i = (e_(i+1) = ... = e_n), every node with the chain's first token.
RECURSIVE RightNested(_, _)
RightNested(i, n) ==
    IF i = n THEN Leaf(2 * n - 1)
    ELSE BinaryOperation(input[1], "assign", Leaf(2 * i - 1),
                         RightNested(i + 1, n))

\* ((e_1 op_1 e_2) op_2 ...) op_(k-1) e_k, op_j being the type of the token
\* in front of e_(j+1), every node with the chain's first token.
RECURSIVE LeftNested(_)
LeftNested(k) ==
    IF k = 1 THEN Leaf(1)
    ELSE BinaryOperation(input[1], input[2 * k - 2].type, LeftNested(k - 1),
                         Leaf(2 * k - 1))

\* The input is  <simple type> [&] ([ atom ])* identifier ;  where the simple
\* type is int, void, unsigned [int] or signed [int].
TypeWordCount ==
    IF input[1].type \in {"_unsigned", "_signed"} /\ input[2].type = "_int"
    THEN 2 ELSE 1

RefCount == IF input[TypeWordCount + 1].type = "bit_and" THEN 1 ELSE 0

DimCount == (Len(input) - TypeWordCount - RefCount - 3) \div 3

DimAt(j) == TypeWordCount + RefCount + 3 * j - 2      \* position of the j-th '['

IsTypedDeclaration ==
    /\ input[1].type \in {"_unsigned", "_signed", "_int", "_void"}
    /\ Len(input) >= TypeWordCount + RefCount + 3
    /\ (Len(input) - TypeWordCount - RefCount - 3) % 3 = 0
    /\ \A j \in 1..DimCount :
           /\ input[DimAt(j)].type = "lbparen"
           /\ IsAtom(DimAt(j) + 1)
           /\ input[DimAt(j) + 2].type = "rbparen"
    /\ input[Len(input) - 2].type = "identifier"
    /\ input[Len(input) - 1].type = "semicolon"

BaseType ==
    IF input[1].type \in {"_unsigned", "_signed"}
    THEN [node |-> "SimpleType", token |-> input[1], identifier |-> "int",
          is_unsigned |-> (input[1].type = "_unsigned")]
    ELSE [node |-> "SimpleType", token |-> input[1],
          identifier |-> input[1].data, is_unsigned |-> FALSE]

\* The type wrapped in its first k array lengths.
RECURSIVE ArrayOf(_)
ArrayOf(k) ==
    IF k = 0
    THEN IF RefCount = 1
         THEN [node |-> "LValueReference", token |-> input[1],
               type |-> BaseType]
         ELSE BaseType
    ELSE [node |-> "StaticArray", token |-> input[1], type |-> ArrayOf(k - 1),
          length |-> Leaf(DimAt(k) + 1)]

\* t is the result of the type rule at the head of the input: it succeeded
\* without a diagnostic, and  identifier =  and a token no expression begins
\* with follow.
MissingInitializerBehind(t) ==
    /\ ~t.hang
    /\ t.ret
    /\ t.errors = <<>>
    /\ input[t.token_iter].type = "identifier"
    /\ input[t.token_iter + 1].type = "assign"
    /\ input[t.token_iter + 2].type \notin ExprStart

----------------------------------------------------------------------------
(* Properties, continued *)

\* C4: a rule that returns false after consuming at least one token has
\* added an Error whose token is the current token: where block() is about
\* to call scope, the type rule (the first rule var_decl tries) either
\* succeeds, or fails with the cursor where it was, or fails with a new last
\* error at the cursor; so return_stmt is never tried from a later cursor.
C4_FailureAfterConsumingHasError ==
    pc = "block" =>
        LET after_type(t) ==
                (~t.hang /\ ~t.ret /\ t.token_iter > token_iter) =>
                    /\ Len(t.errors) > Len(errors)
                    /\ t.errors[Len(t.errors)].token
                           = current_token(t.token_iter)
        IN  after_type(type(token_iter, errors))

\* C5: for  type identifier =  followed by a token no expression begins
\* with, parse returns false, errors_ is not empty and its first Error
\* carries the token behind '='.
C5_MissingInitializer ==
    Done =>
        LET after_type(t) ==
                MissingInitializerBehind(t) =>
                    /\ ~ret
                    /\ errors # <<>>
                    /\ errors[1].token = input[t.token_iter + 2]
        IN  after_type(type(1, <<>>))

\* C5 witness: a parse of  <array type> identifier = <no expression>  is over.
C5_Witness ==
    /\ Done
    /\ ~ret
    /\ Len(errors) = 1
    /\ LET after_type(t) ==
               /\ MissingInitializerBehind(t)
               /\ t.out.node = "StaticArray"
               /\ errors[1].token = input[t.token_iter + 2]
       IN  after_type(type(1, <<>>))

\* C6: '*' and '/' bind tighter than '+' and '-': for atoms x, y, z the
\* statement  x + y * z ;  is parsed to +(x, *(y, z)) and  x * y + z ;  to
\* +(*(x, y), z), likewise with '-' and '/'; and in an input without
\* parentheses no '*' or '/' node has a '+' or '-' node as an operand.
C6_MulDivBindTighter ==
    Done =>
        /\ (/\ Len(input) = 7
            /\ IsChain(AddOps \cup MulOps)
            /\ input[2].type \in AddOps
            /\ input[4].type \in MulOps)
           => /\ ret
              /\ statements = <<ExpressionStatement(input[1],
                     BinaryOperation(input[1], input[2].type, Leaf(1),
                         BinaryOperation(input[3], input[4].type, Leaf(3),
                                         Leaf(5))))>>
        /\ (/\ Len(input) = 7
            /\ IsChain(AddOps \cup MulOps)
            /\ input[2].type \in MulOps
            /\ input[4].type \in AddOps)
           => /\ ret
              /\ statements = <<ExpressionStatement(input[1],
                     BinaryOperation(input[1], input[4].type,
                         BinaryOperation(input[1], input[2].type, Leaf(1),
                                         Leaf(3)),
                         Leaf(5)))>>
        /\ NoParenthesis =>
               \A i \in 1..Len(statements) : NoLooseSum(statements[i])

\* C6 witness: a parse of  x - y / z ;  is over.
C6_Witness ==
    /\ Done
    /\ ret
    /\ Len(input) = 7
    /\ IsChain(AddOps \cup MulOps)
    /\ input[2].type = "minus"
    /\ input[4].type = "divide"
    /\ statements[1].expression.rhs.op = "divide"

\* C7: '=' is right-associative: a chain  e1 = e2 = ... = en ;  of atoms is
\* parsed to =(e1, =(e2, ... =(e(n-1), en))) with the operands in source
\* order, and a single operand is returned as it is.
C7_AssignRightAssociative ==
    (Done /\ IsChain({"assign"})) =>
        /\ ret
        /\ statements = <<ExpressionStatement(input[1],
                                              RightNested(1, Operands))>>

\* C7 witness: a parse of  e1 = e2 = e3 = e4 ;  with two different operands
\* is over.
C7_Witness ==
    /\ Done
    /\ ret
    /\ IsChain({"assign"})
    /\ Operands = 4
    /\ input[1].type # input[3].type
    /\ statements[1].expression.rhs.rhs.node = "BinaryOperation"

\* C8: '+', '-' and '*', '/' are left-associative: a chain
\* e1 op1 e2 op2 ... en ;  of atoms at one precedence level is parsed to
\* op(n-1)(... op2(op1(e1, e2), e3) ..., en), each node with the operator
\* consumed in front of its right operand.
C8_LeftAssociative ==
    (Done /\ (IsChain(AddOps) \/ IsChain(MulOps))) =>
        /\ ret
        /\ statements = <<ExpressionStatement(input[1],
                                              LeftNested(Operands))>>

\* C8 witness: a parse of a chain of three operators of one level, not all
\* the same, is over.
C8_Witness ==
    /\ Done
    /\ ret
    /\ IsChain(MulOps)
    /\ Operands = 4
    /\ input[2].type # input[4].type
    /\ statements[1].expression.lhs.lhs.node = "BinaryOperation"

\* C9: a simple type followed by k >= 0 bracketed lengths is parsed to
\* StaticArray(... StaticArray(T, a1) ..., ak); a '&' behind the simple type
\* wraps it in LValueReference inside every array wrapper; unsigned and
\* signed, with or without int, give SimpleType("int") with is_unsigned true
\* for unsigned and false for signed; int and void give is_unsigned false.
C9_TypeWrappers ==
    (Done /\ IsTypedDeclaration) =>
        /\ ret
        /\ statements = <<VariableDeclaration(input[1], ArrayOf(DimCount),
                              input[Len(input) - 2].data, Null)>>

\* C9 witness: a parse of  unsigned & [x] [y] a ;  is over.
C9_Witness ==
    /\ Done
    /\ ret
    /\ IsTypedDeclaration
    /\ input[1].type = "_unsigned"
    /\ RefCount = 1
    /\ DimCount = 2
    /\ input[DimAt(1) + 1].type # input[DimAt(2) + 1].type
    /\ statements[1].type.type.type.node = "LValueReference"

\* C10: in a function declaration a parameter list that begins with void is
\* either  void )  (zero parameters) or rejected: when parse has returned
\* for  <type> identifier ( void x ...  with x other than ')', errors_ holds
\* an Error.
C10_VoidParameterAlone ==
    (/\ Done
     /\ Len(input) >= 6
     /\ input[1].type = "_int"
     /\ input[2].type = "identifier"
     /\ input[3].type = "lparen"
     /\ input[4].type = "_void"
     /\ input[5].type # "rparen")
    => (~ret /\ errors # <<>>)

----------------------------------------------------------------------------
(* Call chains *)

\* From pos on, behind '(' (first) or ',', the input holds atoms separated
\* by ',' and then ')'; behind '(' the ')' may follow at once.
RECURSIVE IsArgList(_, _)
IsArgList(pos, first) ==
    IF first /\ input[pos].type = "rparen" THEN TRUE
    ELSE /\ IsAtom(pos)
         /\ \/ input[pos + 1].type = "rparen"
            \/ /\ input[pos + 1].type = "comma"
               /\ IsArgList(pos + 2, FALSE)

\* The position of the ')' that ends the list.
RECURSIVE ArgListEnd(_)
ArgListEnd(pos) ==
    IF input[pos].type = "rparen" THEN pos
    ELSE IF input[pos + 1].type = "comma" THEN ArgListEnd(pos + 2)
    ELSE pos + 1

\* The arguments of the list, in source order.
RECURSIVE ArgListOf(_)
ArgListOf(pos) ==
    IF input[pos].type = "rparen" THEN <<>>
    ELSE IF input[pos + 1].type = "comma"
    THEN <<Leaf(pos)>> \o ArgListOf(pos + 2)
    ELSE <<Leaf(pos)>>

\* From pos on the input holds argument lists and then ';' and eof.
RECURSIVE IsCallTail(_)
IsCallTail(pos) ==
    IF input[pos].type = "lparen"
    THEN /\ IsArgList(pos + 1, TRUE)
         /\ IsCallTail(ArgListEnd(pos + 1) + 1)
    ELSE input[pos].type = "semicolon" /\ pos = Len(input) - 1

\* The input is  atom ( ... ) ... ( ... ) ;  with at least one list.
IsCallChain == IsAtom(1) /\ input[2].type = "lparen" /\ IsCallTail(2)

\* The calls of the lists from pos on, callee being what is in front of pos.
RECURSIVE CallsOf(_, _)
CallsOf(pos, callee) ==
    IF input[pos].type = "lparen"
    THEN CallsOf(ArgListEnd(pos + 1) + 1,
                 [node |-> "FunctionCallOperation", token |-> input[1],
                  func_expr |-> callee, argument |-> ArgListOf(pos + 1)])
    ELSE callee

\* C11: a primary expression followed by k >= 1 argument lists is parsed to
\* k nested calls: the innermost has the primary as callee and the first
\* list, each outer one has the previous call as callee, and every call's
\* arguments are those of its list in source order (none for `()`).
C11_CallChain ==
    (Done /\ IsCallChain) =>
        /\ ret
        /\ statements = <<ExpressionStatement(input[1],
                                              CallsOf(2, Leaf(1)))>>

\* C11 witness: a parse of  f ( x , y ) ( ... ) ;  with x # y is over.
C11_Witness ==
    /\ Done
    /\ ret
    /\ IsCallChain
    /\ input[4].type = "comma"
    /\ input[3].type # input[5].type
    /\ input[7].type = "lparen"
    /\ statements[1].expression.func_expr.node = "FunctionCallOperation"
    /\ Len(statements[1].expression.func_expr.argument) = 2

----------------------------------------------------------------------------
(* Start tokens *)

\* C12: every node carries the first token consumed for its own construct:
\* the Block of a successful parse carries the first token of its first
\* statement (which is the token that statement has), and each parameter of
\* a FunctionDeclaration carries the first token of that parameter's type
\* (which is the token its type node has).
C12_StartTokens ==
    (Done /\ ret /\ statements # <<>>) =>
        /\ out.token = statements[1].token
        /\ \A i \in 1..Len(statements) :
               statements[i].node = "FunctionDeclaration" =>
                   \A j \in 1..Len(statements[i].parameter) :
                       statements[i].parameter[j].token
                           = statements[i].parameter[j].type.token

----------------------------------------------------------------------------
(* The cursor *)

\* The token types of the inputs, and the one that ends an input.
TokenTypes == {t.type : t \in AllTokens} \cup {"eof"}

\* accept at the cursor of this state, for every token type and for an empty
\* and a filled capture slot: on a match it returns true, the cursor is one
\* further and the slot holds the token that was current; otherwise it
\* returns false and the cursor and the slot are what they were.
AcceptContract ==
    \A tt \in TokenTypes, slot \in {NoToken, input[1]} :
        LET a == accept(tt, token_iter, slot) IN
        IF input[token_iter].type = tt
        THEN /\ a.ret
             /\ a.token_iter = token_iter + 1
             /\ a.start_token = input[token_iter]
        ELSE /\ ~a.ret
             /\ a.token_iter = token_iter
             /\ a.start_token = slot

\* C13: accept advances the cursor by exactly one and captures the consumed
\* token on a match and changes nothing otherwise; the cursor never
\* decreases during a parse and never moves past the end-of-input token.
C13_AcceptMovesCursor ==
    /\ [](AcceptContract /\ token_iter \in 1..Len(input))
    /\ [][token_iter' >= token_iter]_vars

\* C13 witness: a parse has consumed at least three tokens and its cursor
\* stands on the end-of-input token.
C13_Witness ==
    /\ Done
    /\ Len(input) >= 4
    /\ token_iter = Len(input)
    /\ accept("eof", token_iter, NoToken).ret

----------------------------------------------------------------------------
(* Code generation *)

Generated == pc = "generated"

\* C14: code generation of a BinaryOperation whose operator is not one of
\* + - * / signals an error and returns no placeholder value (here for the
\* root of the generated expression).
C14_UnsupportedOperatorSignals ==
    (/\ Generated
     /\ code.node.node = "BinaryOperation"
     /\ code.node.op \notin AddOps \cup MulOps)
    => (code.thrown /\ code.value # getFalse)

----------------------------------------------------------------------------
(* Parameter lists *)

\* The input begins with  <type word> identifier (  and a ')' follows.
IsFunctionHead ==
    /\ Len(input) >= 5
    /\ input[1].type = "_int"
    /\ input[2].type = "identifier"
    /\ input[3].type = "lparen"
    /\ \E i \in 4..Len(input) : input[i].type = "rparen"

\* The position of the ')' that ends the parameter list.
ParamClose ==
    CHOOSE i \in 4..Len(input) :
        /\ input[i].type = "rparen"
        /\ \A j \in 4..(i - 1) : input[j].type # "rparen"

\* The positions of the parameter types written in the list (each parameter
\* type of the inputs begins with the one word int).
ParamTypes == {i \in 4..(ParamClose - 1) : input[i].type = "_int"}

\* C15: a successfully parsed function declaration holds one parameter per
\* parameter type written between '(' and ')', a trailing unnamed one
\* included; and a list in which a parameter's name is followed by the next
\* parameter's type without ',' is rejected with an Error.
C15_ParameterList ==
    (/\ Done
     /\ IsFunctionHead
     /\ \A i \in 4..(ParamClose - 1) : input[i].type # "_void")
    => /\ (ret /\ statements # <<>>) =>
              Len(statements[1].parameter) = Cardinality(ParamTypes)
       /\ (\E i \in ParamTypes : i > 4 /\ input[i - 1].type = "identifier")
              => (~ret /\ errors # <<>>)

----------------------------------------------------------------------------
(* Mandatory children *)

\* Every mandatory child of every node below n is there. The expression of
\* a ReturnStatement and the initializer of a VariableDeclaration may be
\* absent.
RECURSIVE AllPresent(_)
AllPresent(n) ==
    LET each(ns) == \A i \in 1..Len(ns) : ns[i] # Null /\ AllPresent(ns[i])
        one(c) == c # Null /\ AllPresent(c)
    IN  CASE n.node = "BinaryOperation" -> one(n.lhs) /\ one(n.rhs)
          [] n.node = "UnaryOperation" -> one(n.rhs)
          [] n.node = "FunctionCallOperation" ->
                 one(n.func_expr) /\ each(n.argument)
          [] n.node = "ExpressionStatement" -> one(n.expression)
          [] n.node = "ReturnStatement" -> AllPresent(n.return_expr)
          [] n.node = "VariableDeclaration" ->
                 one(n.type) /\ AllPresent(n.expression)
          [] n.node = "FunctionDeclaration" ->
                 one(n.return_type) /\ each(n.parameter) /\ one(n.body)
          [] n.node = "StaticArray" -> one(n.type) /\ one(n.length)
          [] n.node = "LValueReference" -> one(n.type)
          [] n.node \in {"Scope", "Block"} -> each(n.statements)
          [] OTHER -> TRUE

\* C16: in the tree of a successful parse every mandatory child is present:
\* the operands of operations, the callee and the arguments of calls, the
\* expression of expression statements, the length of static arrays.
C16_MandatoryChildren == (Done /\ ret) => AllPresent(out)

====
